---- MODULE Spec2Model ----
(***************************************************************************)
(* jsontoggle: the path-addressing and toggle-state persistence engine of  *)
(* src/jsontoggle/jsontoggle_core.py, with the path generation of the tree *)
(* view in src/cli.py.                                                     *)
(*                                                                         *)
(* Python strings are sequences of one-character strings, so that split,   *)
(* replace and int() are computed character by character.  JSON values are *)
(* tagged tuples: <<"null">>, <<"int", n>>, <<"dict", f>> with f a function *)
(* from keys (strings) to values, <<"list", s>> with s a sequence of       *)
(* values.  Python's None and JSON null are the same value, <<"null">>.    *)
(***************************************************************************)
EXTENDS Integers, Sequences, FiniteSets, TLC

VARIABLES
    docfile,             \* content of the document file (json_file_path)
    files,               \* the toggle directory: record filename stem -> stored value
    json_data,           \* JsonToggleManager.json_data
    original_json_data,  \* JsonToggleManager.original_json_data
    doc0,                \* history: the document first loaded
    hist,                \* history: the last operations, newest first, with their pre-states
    toggled,             \* history: paths whose last successful call returned "Toggled out"
    clean,               \* history: only toggle_node calls so far, all successful, each revert by the path that wrote the record
    writer,              \* history: record filename stem -> the path whose toggle-out wrote it
    ncalls               \* number of operations performed

vars == <<docfile, files, json_data, original_json_data, doc0, hist, toggled, clean, writer, ncalls>>

----------------------------------------------------------------------------
(* Bounds *)

MaxCalls == 3

\* operations after a construction on a toggle directory left by someone else
MaxDirtyCalls == 1

\* record files in such a directory
MaxDirty == 2

----------------------------------------------------------------------------
(* JSON values *)

Null == <<"null">>

IntV(n) == <<"int", n>>

Dict(f) == <<"dict", f>>

List(s) == <<"list", s>>

EmptyMap == [k \in {} |-> Null]

EmptyDict == Dict(EmptyMap)

IsDict(v) == v[1] = "dict"

IsList(v) == v[1] = "list"

\* current[part] = value on a dict
Put(f, k, v) == [x \in (DOMAIN f) \cup {k} |-> IF x = k THEN v ELSE f[x]]

\* del current[part] on a dict
Del(f, k) == [x \in (DOMAIN f) \ {k} |-> f[x]]

\* del current[index] on a list (index is 0-based)
DelAt(s, index) == [i \in 1..(Len(s) - 1) |-> IF i <= index THEN s[i] ELSE s[i + 1]]

\* while len(current) <= index: current.append(None)
Pad(s, index) ==
    IF Len(s) <= index THEN s \o [i \in 1..(index + 1 - Len(s)) |-> Null] ELSE s

----------------------------------------------------------------------------
(* Python string operations *)

Digits == <<"0", "1", "2", "3", "4", "5", "6", "7", "8", "9">>

IsDigit(c) == \E i \in 1..10 : Digits[i] = c

DigitVal(c) == (CHOOSE i \in 1..10 : Digits[i] = c) - 1

\* str.split(sep) for a one-character separator
RECURSIVE Split(_, _)
Split(s, sep) ==
    IF \A i \in 1..Len(s) : s[i] # sep
    THEN <<s>>
    ELSE LET i == CHOOSE j \in 1..Len(s) : s[j] = sep /\ \A k \in 1..(j - 1) : s[k] # sep
         IN  <<SubSeq(s, 1, i - 1)>> \o Split(SubSeq(s, i + 1, Len(s)), sep)

\* str.replace(c, r) for a one-character c and any string r
RECURSIVE Replace(_, _, _)
Replace(s, c, r) ==
    IF s = <<>> THEN <<>>
    ELSE (IF Head(s) = c THEN r ELSE <<Head(s)>>) \o Replace(Tail(s), c, r)

\* str.replace('__', '.'): left to right, non-overlapping
RECURSIVE ReplaceDoubleUnderscore(_)
ReplaceDoubleUnderscore(s) ==
    IF Len(s) < 2 THEN s
    ELSE IF s[1] = "_" /\ s[2] = "_"
         THEN <<".">> \o ReplaceDoubleUnderscore(SubSeq(s, 3, Len(s)))
         ELSE <<s[1]>> \o ReplaceDoubleUnderscore(Tail(s))

\* value of a string of digits and single underscores between digits
RECURSIVE DigitsValue(_, _)
DigitsValue(s, acc) ==
    IF s = <<>> THEN acc
    ELSE IF Head(s) = "_" THEN DigitsValue(Tail(s), acc)
         ELSE DigitsValue(Tail(s), 10 * acc + DigitVal(Head(s)))

\* the literal part of int(): digits, with single underscores between digits
IsIntBody(s) ==
    /\ s # <<>>
    /\ IsDigit(s[1])
    /\ IsDigit(s[Len(s)])
    /\ \A i \in 1..Len(s) : IsDigit(s[i]) \/ s[i] = "_"
    /\ \A i \in 1..(Len(s) - 1) : ~(s[i] = "_" /\ s[i + 1] = "_")

\* int(part): ok is FALSE where Python raises ValueError
IntOf(part) ==
    LET neg  == part # <<>> /\ Head(part) = "-"
        body == IF neg THEN Tail(part) ELSE part
    IN  IF IsIntBody(body)
        THEN [ok |-> TRUE, val |-> IF neg THEN 0 - DigitsValue(body, 0) ELSE DigitsValue(body, 0)]
        ELSE [ok |-> FALSE, val |-> 0]

\* f"{i}" for a non-negative integer
RECURSIVE StrOf(_)
StrOf(i) == IF i < 10 THEN <<Digits[i + 1]>> ELSE StrOf(i \div 10) \o <<Digits[(i % 10) + 1]>>

\* Python list indexing: the 1-based position of current[index], 0 where IndexError
Pos(s, index) ==
    IF 0 <= index /\ index < Len(s) THEN index + 1
    ELSE IF index < 0 /\ 0 - index <= Len(s) THEN Len(s) + index + 1
    ELSE 0

----------------------------------------------------------------------------
(* DictListHelper *)

RECURSIVE get(_, _)
get(data, path_parts) ==
    IF path_parts = <<>> THEN data
    ELSE LET part == Head(path_parts)
             n    == IntOf(part)
             current ==
                 IF IsDict(data)
                 THEN (IF part \in DOMAIN data[2] THEN data[2][part] ELSE Null)
                 ELSE IF IsList(data)
                      THEN (IF n.ok /\ Pos(data[2], n.val) # 0
                            THEN data[2][Pos(data[2], n.val)]
                            ELSE Null)
                      ELSE Null
         IN  IF current = Null THEN Null ELSE get(current, Tail(path_parts))

RECURSIVE has(_, _)
has(data, path_parts) ==
    IF path_parts = <<>> THEN TRUE
    ELSE LET part == Head(path_parts)
             n    == IntOf(part)
         IN  IF IsDict(data)
             THEN part \in DOMAIN data[2] /\ has(data[2][part], Tail(path_parts))
             ELSE IF IsList(data)
                  THEN /\ n.ok
                       /\ 0 <= n.val /\ n.val < Len(data[2])
                       /\ has(data[2][n.val + 1], Tail(path_parts))
                  ELSE FALSE

\* r: "ok" (returns True), "false" (returns False), "raise" (IndexError leaves
\* the function); d: the structure as the call leaves it
RECURSIVE set(_, _, _)
set(data, path_parts, value) ==
    IF path_parts = <<>> THEN [r |-> "false", d |-> data]
    ELSE
    LET part == Head(path_parts)
        n    == IntOf(part)
    IN  IF Len(path_parts) = 1
        THEN IF IsDict(data)
             THEN [r |-> "ok", d |-> Dict(Put(data[2], part, value))]
             ELSE IF IsList(data)
                  THEN IF ~n.ok
                       THEN [r |-> "false", d |-> data]
                       ELSE LET padded == Pad(data[2], n.val)
                                p      == Pos(padded, n.val)
                            IN  IF p = 0
                                THEN [r |-> "raise", d |-> List(padded)]
                                ELSE [r |-> "ok", d |-> List([padded EXCEPT ![p] = value])]
                  ELSE [r |-> "false", d |-> data]
        ELSE IF IsDict(data)
             THEN LET child == IF part \notin DOMAIN data[2] \/ data[2][part] = Null
                               THEN EmptyDict
                               ELSE data[2][part]
                      sub   == set(child, Tail(path_parts), value)
                  IN  [r |-> sub.r, d |-> Dict(Put(data[2], part, sub.d))]
             ELSE IF IsList(data)
                  THEN IF ~n.ok
                       THEN [r |-> "false", d |-> data]
                       ELSE LET padded == Pad(data[2], n.val)
                                p      == Pos(padded, n.val)
                                child  == IF padded[p] = Null THEN EmptyDict ELSE padded[p]
                                sub    == set(child, Tail(path_parts), value)
                            IN  IF p = 0
                                THEN [r |-> "false", d |-> List(padded)]
                                ELSE [r |-> sub.r, d |-> List([padded EXCEPT ![p] = sub.d])]
                  ELSE [r |-> "false", d |-> data]

RECURSIVE unset(_, _)
unset(data, path_parts) ==
    IF path_parts = <<>> THEN [ok |-> FALSE, d |-> data]
    ELSE
    LET part == Head(path_parts)
        n    == IntOf(part)
    IN  IF Len(path_parts) = 1
        THEN IF IsDict(data) /\ part \in DOMAIN data[2]
             THEN [ok |-> TRUE, d |-> Dict(Del(data[2], part))]
             ELSE IF IsList(data) /\ n.ok /\ 0 <= n.val /\ n.val < Len(data[2])
                  THEN [ok |-> TRUE, d |-> List(DelAt(data[2], n.val))]
                  ELSE [ok |-> FALSE, d |-> data]
        ELSE IF IsDict(data)
             THEN IF part \notin DOMAIN data[2]
                  THEN [ok |-> FALSE, d |-> data]
                  ELSE LET sub == unset(data[2][part], Tail(path_parts))
                       IN  [ok |-> sub.ok, d |-> Dict(Put(data[2], part, sub.d))]
             ELSE IF IsList(data)
                  THEN IF ~(n.ok /\ 0 <= n.val /\ n.val < Len(data[2]))
                       THEN [ok |-> FALSE, d |-> data]
                       ELSE LET sub == unset(data[2][n.val + 1], Tail(path_parts))
                            IN  [ok |-> sub.ok,
                                 d  |-> List([data[2] EXCEPT ![n.val + 1] = sub.d])]
                  ELSE [ok |-> FALSE, d |-> data]

----------------------------------------------------------------------------
(* Strings of the model: keys, path segments and display paths *)

kA == <<"a">>

kB == <<"b">>

kAB == <<"a", "_", "b">>

kC == <<"c">>

kK == <<"k">>

kUsers == <<"u", "s", "e", "r", "s">>

kName == <<"n", "a", "m", "e">>

Dot == <<".">>

\* {"a": {"b": 1}, "a_b": 2}
DocNested == Dict(Put(Put(EmptyMap, kA, Dict(Put(EmptyMap, kB, IntV(1)))), kAB, IntV(2)))

\* {"c": [10, 20]}
DocList == Dict(Put(EmptyMap, kC, List(<<IntV(10), IntV(20)>>)))

\* {"users": [{"name": 1}]}
DocUsers == Dict(Put(EmptyMap, kUsers, List(<<Dict(Put(EmptyMap, kName, IntV(1)))>>)))

\* {"k": null, "a": {"0": 3}}
DocNull == Dict(Put(Put(EmptyMap, kK, Null), kA, Dict(Put(EmptyMap, <<"0">>, IntV(3)))))

Docs == {DocNested, DocList, DocUsers, DocNull}

\* display paths given to toggle_node by a caller of the core
PathInputs ==
    { kA, kA \o Dot \o kB, kAB, kA \o Dot \o <<"0">>, kK,
      kC, kC \o Dot \o <<"0">>, kC \o Dot \o <<"1">>, kC \o Dot \o <<"2">>,
      kC \o Dot \o <<"-", "1">>,
      kUsers \o Dot \o <<"0">>, kUsers \o Dot \o <<"0">> \o Dot \o kName,
      kUsers \o Dot \o <<"-", "1">>,
      <<"z">> }

----------------------------------------------------------------------------
(* JsonTree.load_json: the display paths the tree view attaches to its leaves *)

RECURSIVE load_json(_, _)
load_json(data, path) ==
    IF IsDict(data)
    THEN UNION { LET value    == data[2][key]
                     new_path == IF path # <<>> THEN path \o Dot \o key ELSE key
                 IN  IF IsDict(value) \/ IsList(value)
                     THEN load_json(value, new_path)
                     ELSE {new_path}
                 : key \in DOMAIN data[2] }
    ELSE IF IsList(data)
         THEN UNION { LET value    == data[2][i]
                          new_path == path \o <<"[">> \o StrOf(i - 1) \o <<"]">>
                      IN  IF IsDict(value) \/ IsList(value)
                          THEN load_json(value, new_path)
                          ELSE {new_path}
                      : i \in 1..Len(data[2]) }
         ELSE {}

----------------------------------------------------------------------------
(* JsonToggleManager *)

\* toggle_node: path_parts = selected_path.split('.')
PathParts(selected_path) == Split(selected_path, ".")

\* toggle_node: the stem of toggle_file_name
ToggleFileName(selected_path) ==
    Replace(Replace(Replace(selected_path, ".", <<"_">>), "[", <<"_">>), "]", <<>>)

\* _load_json_with_toggles_reverted: path_parts from toggle_file.stem
StemParts(stem) == Split(ReplaceDoubleUnderscore(stem), "_")

\* toggle_node: the guard of "does not exist or is invalid"
Rejected(selected_path) ==
    /\ get(original_json_data, PathParts(selected_path)) = Null
    /\ ~has(original_json_data, PathParts(selected_path))

\* the content of a record file that is not valid JSON: json.load raises
Corrupt == <<"corrupt">>

\* RevertAll with the try around the loop instead of inside it: the first
\* record that is not valid JSON ends the replay
RECURSIVE RevertAll_Abort(_, _, _)
RevertAll_Abort(reverted_data, dir, order) ==
    IF order = <<>> THEN reverted_data
    ELSE IF dir[Head(order)] = Corrupt
         THEN reverted_data
         ELSE RevertAll_Abort(set(reverted_data, StemParts(Head(order)), dir[Head(order)]).d,
                              dir, Tail(order))

\* the loop of _load_json_with_toggles_reverted, the records taken in the
\* order glob yields them; a record whose json.load or set raises is skipped
\* by the except clause, and the result of set is not looked at
RECURSIVE RevertAll(_, _, _)
RevertAll(reverted_data, dir, order) ==
    IF order = <<>> THEN reverted_data
    ELSE IF dir[Head(order)] = Corrupt
         THEN RevertAll(reverted_data, dir, Tail(order))
         ELSE RevertAll(set(reverted_data, StemParts(Head(order)), dir[Head(order)]).d,
                        dir, Tail(order))

\* the orders in which glob("*.json") may yield the records
GlobOrders(dir) ==
    LET n == Cardinality(DOMAIN dir)
    IN  { o \in [1..n -> DOMAIN dir] : \A i, j \in 1..n : i # j => o[i] # o[j] }

\* the values _load_json_with_toggles_reverted may return
\* (copy.deepcopy: values are immutable here, the copy is the value)
LoadJsonWithTogglesReverted(base_data, dir) ==
    { RevertAll(base_data, dir, o) : o \in GlobOrders(dir) }

\* Revert as it would be if set did not create missing intermediate
\* containers: the write-back fails when the parent of the path is absent
Revert_NoCreate(selected_path) ==
    LET path_parts == PathParts(selected_path)
        name       == ToggleFileName(selected_path)
        s          == set(json_data, path_parts, files[name])
        parent     == SubSeq(path_parts, 1, Len(path_parts) - 1)
    IN  IF s.r = "ok" /\ has(json_data, parent)
        THEN [result    |-> "reverted",
              files     |-> Del(files, name),
              json_data |-> s.d,
              docfile   |-> s.d,
              original  |-> original_json_data]
        ELSE [result    |-> "revert_error",
              files     |-> files,
              json_data |-> json_data,
              docfile   |-> docfile,
              original  |-> original_json_data]

\* toggle_node, the branch "if toggle_file_path.exists()": put the stored
\* value back
Revert(selected_path) ==
    LET path_parts == PathParts(selected_path)
        name       == ToggleFileName(selected_path)
        s          == set(json_data, path_parts, files[name])
    IN  IF files[name] = Corrupt
        THEN [result    |-> "decode_error",
              files     |-> files,
              json_data |-> json_data,
              docfile   |-> docfile,
              original  |-> original_json_data]
        ELSE IF s.r = "ok"
             THEN [result    |-> "reverted",
                   files     |-> Del(files, name),
                   json_data |-> s.d,
                   docfile   |-> s.d,
                   original  |-> original_json_data]
             ELSE [result    |-> IF s.r = "raise" THEN "index_error" ELSE "revert_error",
                   files     |-> files,
                   json_data |-> s.d,
                   docfile   |-> docfile,
                   original  |-> original_json_data]

\* ToggleOut without the call of save_current_json
ToggleOut_NoSave(selected_path) ==
    LET path_parts     == PathParts(selected_path)
        original_value == get(original_json_data, path_parts)
        name           == ToggleFileName(selected_path)
        u              == unset(json_data, path_parts)
    IN  [result    |-> IF u.ok THEN "toggled_out" ELSE "toggle_error",
         files     |-> Put(files, name, original_value),
         json_data |-> u.d,
         docfile   |-> docfile,
         original  |-> original_json_data]

\* the else branch as it would act if original_json_data were the object
\* json_data refers to (no deepcopy at line 167): the unset shows through
ToggleOut_Aliased(selected_path) ==
    LET path_parts     == PathParts(selected_path)
        original_value == get(original_json_data, path_parts)
        name           == ToggleFileName(selected_path)
        u              == unset(json_data, path_parts)
    IN  [result    |-> IF u.ok THEN "toggled_out" ELSE "toggle_error",
         files     |-> Put(files, name, original_value),
         json_data |-> u.d,
         docfile   |-> IF u.ok THEN u.d ELSE docfile,
         original  |-> u.d]

\* toggle_node, the else branch: save the original value and remove the node
ToggleOut(selected_path) ==
    LET path_parts     == PathParts(selected_path)
        original_value == get(original_json_data, path_parts)
        name           == ToggleFileName(selected_path)
        u              == unset(json_data, path_parts)
    IN  IF u.ok
        THEN [result    |-> "toggled_out",
              files     |-> Put(files, name, original_value),
              json_data |-> u.d,
              docfile   |-> u.d,
              original  |-> original_json_data]
        ELSE [result    |-> "toggle_error",
              files     |-> Put(files, name, original_value),
              json_data |-> u.d,
              docfile   |-> docfile,
              original  |-> original_json_data]

\* toggle_node(selected_path): the result and the state the call leaves
toggle_node(selected_path) ==
    IF Rejected(selected_path)
    THEN [result    |-> "not_found",
          files     |-> files,
          json_data |-> json_data,
          docfile   |-> docfile,
          original  |-> original_json_data]
    ELSE IF ToggleFileName(selected_path) \in DOMAIN files
         THEN Revert(selected_path)
         ELSE ToggleOut(selected_path)

----------------------------------------------------------------------------
(* The state machine *)

PreState == [json_data |-> json_data, files |-> files,
             original |-> original_json_data, docfile |-> docfile, writer |-> writer,
             toggled |-> toggled]

Remember(entry) == IF hist = <<>> THEN <<entry>> ELSE <<entry, hist[1]>>

Succeeded(result) == result \in {"toggled_out", "reverted"}

\* JsonToggleManager(json_file_path, toggles_dir) on a document with no records
Init ==
    /\ doc0 \in Docs
    /\ docfile = doc0
    /\ files = EmptyMap
    /\ json_data = doc0
    /\ original_json_data = doc0
    /\ hist = <<>>
    /\ toggled = {}
    /\ clean = TRUE
    /\ writer = EmptyMap
    /\ ncalls = 0

Call(selected_path, via) ==
    LET t    == toggle_node(selected_path)
        name == ToggleFileName(selected_path)
    IN  /\ ncalls < MaxCalls
        /\ ncalls' = ncalls + 1
        /\ files' = t.files
        /\ json_data' = t.json_data
        /\ docfile' = t.docfile
        /\ original_json_data' = t.original
        /\ hist' = Remember([op |-> via, path |-> selected_path, result |-> t.result,
                             pre |-> PreState])
        /\ toggled' = IF t.result = "toggled_out" THEN toggled \cup {selected_path}
                      ELSE IF t.result = "reverted" THEN toggled \ {selected_path}
                      ELSE toggled
        /\ writer' = IF t.result \in {"toggled_out", "toggle_error"}
                     THEN Put(writer, name, selected_path)
                     ELSE IF t.result = "reverted" THEN Del(writer, name)
                     ELSE writer
        /\ clean' = (/\ clean
                     /\ Succeeded(t.result)
                     /\ t.result = "reverted" => writer[name] = selected_path)
        /\ UNCHANGED doc0

\* a caller of the core toggles a path
ToggleNode == \E selected_path \in PathInputs : Call(selected_path, "toggle_node")

\* JsonToggleApp.action_toggle_node: the path of a leaf of the tree view
ActionToggleNode ==
    \E selected_path \in load_json(json_data, <<>>) : Call(selected_path, "action_toggle_node")

\* the manager is discarded and a fresh one constructed from the same files
Restart ==
    /\ ncalls < MaxCalls
    /\ ncalls' = ncalls + 1
    /\ json_data' = docfile
    /\ original_json_data' \in LoadJsonWithTogglesReverted(docfile, files)
    /\ hist' = Remember([op |-> "restart", path |-> <<>>, result |-> "constructed",
                         pre |-> PreState])
    /\ clean' = FALSE
    /\ UNCHANGED <<docfile, files, doc0, toggled, writer>>

Next == ToggleNode \/ ActionToggleNode \/ Restart

Spec == Init /\ [][Next]_vars

----------------------------------------------------------------------------
(* Construction on a toggle directory that already holds files *)

\* stems of the "*.json" files found in the directory
DirtyStems == { kAB, kC \o <<"_", "0">>, kC \o <<"_", "-", "3">>, <<"z">> }

\* what such a file holds: text that is not JSON, or a JSON value
DirtyContents == { Corrupt, IntV(7) }

DirtyDirs ==
    UNION { [S -> DirtyContents] : S \in { T \in SUBSET DirtyStems : Cardinality(T) <= MaxDirty } }

\* JsonToggleManager(json_file_path, toggles_dir) on a valid document and any
\* such directory
InitDirty ==
    /\ doc0 \in Docs
    /\ docfile = doc0
    /\ files \in DirtyDirs
    /\ json_data = doc0
    /\ original_json_data \in LoadJsonWithTogglesReverted(doc0, files)
    /\ hist = <<>>
    /\ toggled = {}
    /\ clean = FALSE
    /\ writer = EmptyMap
    /\ ncalls = 0

NextDirty == ncalls < MaxDirtyCalls /\ Next

SpecDirty == InitDirty /\ [][NextDirty]_vars

----------------------------------------------------------------------------
(* Vocabulary of the properties *)

IsToggleCall(e) == e.op \in {"toggle_node", "action_toggle_node"}

\* the last operation was a toggle_node call
Called == hist # <<>> /\ IsToggleCall(hist[1])

\* the last two operations were toggle_node calls
CalledTwice == Len(hist) = 2 /\ IsToggleCall(hist[1]) /\ IsToggleCall(hist[2])

\* the path exists in the document: DictListHelper.has
Resolves(data, selected_path) == has(data, PathParts(selected_path))

\* a toggle-record file exists for the path
RecordExists(selected_path) == ToggleFileName(selected_path) \in DOMAIN files

\* the path p1..pk of the first k parts
Prefix(path_parts, k) == SubSeq(path_parts, 1, k)

\* an ancestor container of the path is not present in the document
AncestorMissing(data, path_parts) ==
    \E k \in 1..(Len(path_parts) - 1) : ~has(data, Prefix(path_parts, k))

\* the number of parts of the shortest prefix that is not present
FirstMissing(data, path_parts) ==
    CHOOSE k \in 1..Len(path_parts) :
        /\ ~has(data, Prefix(path_parts, k))
        /\ \A j \in 1..(k - 1) : has(data, Prefix(path_parts, j))

\* the deepest ancestor still present is an object, null, or an array that
\* the next part indexes with a non-negative integer
DeepestPresentTakesPart(data, path_parts) ==
    LET k == FirstMissing(data, path_parts)
        x == get(data, Prefix(path_parts, k - 1))
        n == IntOf(path_parts[k])
    IN  \/ IsDict(x)
        \/ x = Null
        \/ IsList(x) /\ n.ok /\ n.val >= 0

\* the last call was toggle_node(P) with P toggled out, its record present and
\* an ancestor of P absent from json_data
RevertUnderMissingAncestor ==
    /\ Called
    /\ hist[1].path \in hist[1].pre.toggled
    /\ ToggleFileName(hist[1].path) \in DOMAIN hist[1].pre.files
    /\ AncestorMissing(hist[1].pre.json_data, PathParts(hist[1].path))

----------------------------------------------------------------------------
(* Properties *)

\* C1: for a path P that resolves in the original document, toggle_node(P)
\* followed immediately by toggle_node(P) leaves json_data and the set of
\* toggle-record files as they were before the first call.
C1_ToggleTwiceRestores ==
    (/\ CalledTwice
     /\ hist[1].path = hist[2].path
     /\ Resolves(hist[2].pre.original, hist[2].path))
    => /\ json_data = hist[2].pre.json_data
       /\ DOMAIN files = DOMAIN hist[2].pre.files

\* C2: in every reachable state, for every path P of the original document,
\* a toggle-record file exists for P exactly when P is toggled out: a
\* toggle-out of P succeeded and was not reverted.
C2_RecordIffToggledOut ==
    \A P \in PathInputs \cup toggled :
        Resolves(original_json_data, P) => (RecordExists(P) <=> P \in toggled)

\* C3: from a fresh manager with an empty toggle directory, after successful
\* toggle_node calls only, once every record has been reverted by the path
\* that wrote it (the directory is empty again) json_data is the document
\* that was first loaded.
C3_OriginalRestored ==
    (clean /\ DOMAIN files = {}) => json_data = doc0

\* C4: a fresh manager, a successful toggle-out of a path P that resolves in
\* the original document, then a restart: the new manager's json_data is the
\* document with P toggled out, original_json_data resolves P to the value it
\* had before the toggle, and toggle_node(P) reverts.
C4_RestartPreservesToggle ==
    (/\ ncalls = 2
     /\ hist[1].op = "restart"
     /\ IsToggleCall(hist[2])
     /\ hist[2].result = "toggled_out"
     /\ Resolves(hist[2].pre.original, hist[2].path))
    => /\ json_data = hist[1].pre.json_data
       /\ Resolves(original_json_data, hist[2].path)
       /\ get(original_json_data, PathParts(hist[2].path))
              = get(hist[2].pre.original, PathParts(hist[2].path))
       /\ toggle_node(hist[2].path).result = "reverted"

\* C5: in every reachable state original_json_data is a replay of the toggle
\* records over json_data, as _load_json_with_toggles_reverted computes it.
C5_OriginalIsReplay ==
    original_json_data \in LoadJsonWithTogglesReverted(json_data, files)

\* C6: a toggle_node call on a path that exists in the original document
\* either succeeds or leaves json_data, the document file and the toggle
\* records as they were; a failed toggle-out has written no record.
C6_FailureChangesNothing ==
    (/\ Called
     /\ Resolves(hist[1].pre.original, hist[1].path)
     /\ ~Succeeded(hist[1].result))
    => /\ json_data = hist[1].pre.json_data
       /\ docfile = hist[1].pre.docfile
       /\ files = hist[1].pre.files

\* C7: toggle_node on a path that does not resolve in the original document
\* raises the not-found error and changes no record, not the document file,
\* not json_data and not original_json_data.
C7_UnresolvedIsNotFound ==
    (Called /\ ~Resolves(hist[1].pre.original, hist[1].path))
    => /\ hist[1].result = "not_found"
       /\ files = hist[1].pre.files
       /\ docfile = hist[1].pre.docfile
       /\ json_data = hist[1].pre.json_data
       /\ original_json_data = hist[1].pre.original

\* C8: distinct paths have distinct record filenames, so toggle_node(Q) leaves
\* every record written for another path P in place with its content.
C8_OtherRecordsUntouched ==
    Called =>
        \A name \in DOMAIN hist[1].pre.files :
            hist[1].pre.writer[name] # hist[1].path
            => name \in DOMAIN files /\ files[name] = hist[1].pre.files[name]

\* C9: for every path toggle_node accepts, decoding the record filename it
\* computes, the way the load does, gives the path parts toggle_node used.
C9_FilenameRoundTrip ==
    (Called /\ hist[1].result # "not_found")
    => StemParts(ToggleFileName(hist[1].path)) = PathParts(hist[1].path)

\* C10: a bracketed path the tree view generates for an existing array
\* element resolves in the original document: with no record for it,
\* toggle_node toggles it out.
C10_BracketedPathToggles ==
    (/\ Called
     /\ hist[1].op = "action_toggle_node"
     /\ \E i \in 1..Len(hist[1].path) : hist[1].path[i] = "["
     /\ ToggleFileName(hist[1].path) \notin DOMAIN hist[1].pre.files)
    => hist[1].result = "toggled_out"

\* C11: after a successful toggle-out of a path P that had no record, P no
\* longer resolves in json_data, exactly one record was added, no other record
\* was removed or changed, and the added record holds the value of P in
\* original_json_data.
C11_ToggleOutPostcondition ==
    (/\ Called
     /\ hist[1].result = "toggled_out"
     /\ ToggleFileName(hist[1].path) \notin DOMAIN hist[1].pre.files)
    => /\ ~Resolves(json_data, hist[1].path)
       /\ DOMAIN files = DOMAIN hist[1].pre.files \cup {ToggleFileName(hist[1].path)}
       /\ \A name \in DOMAIN hist[1].pre.files : files[name] = hist[1].pre.files[name]
       /\ files[ToggleFileName(hist[1].path)]
              = get(original_json_data, PathParts(hist[1].path))

C13_DocumentFileIsWorkingDocument == docfile = json_data

\* C13 witness: a call has changed json_data, and a call has failed after
\* json_data was changed
C13_Witness ==
    /\ CalledTwice
    /\ hist[2].pre.json_data # hist[1].pre.json_data
    /\ ~Succeeded(hist[1].result)
    /\ json_data # doc0

\* the records of the directory that hold valid JSON
ValidRecords(dir) ==
    [name \in { x \in DOMAIN dir : dir[x] # Corrupt } |-> dir[name]]

\* the manager has just been constructed
JustConstructed == hist = <<>> \/ hist[1].op = "restart"

\* C14: construction on a valid document file succeeds whatever the toggle
\* directory holds: records that are not valid JSON are skipped, and the
\* original document is the one built from the remaining records alone.
C14_CorruptRecordsSkipped ==
    JustConstructed
    => /\ json_data = docfile
       /\ original_json_data \in LoadJsonWithTogglesReverted(docfile, ValidRecords(files))

\* C14 witness: a manager constructed on a directory with a record that is
\* not valid JSON and a valid record that was replayed
C14_Witness ==
    /\ JustConstructed
    /\ \E name \in DOMAIN files : files[name] = Corrupt
    /\ original_json_data # docfile

\* every operation since the fresh load was a toggle_node call
OnlyCallsSoFar ==
    /\ hist # <<>>
    /\ ncalls = Len(hist)
    /\ \A i \in 1..Len(hist) : IsToggleCall(hist[i])

\* C15: from a freshly loaded document with an empty toggle directory, the
\* successful toggle_node(P) calls alternate for every path P, beginning with
\* "Toggled out": "Reverted" is returned only when the last successful call
\* for P returned "Toggled out", and "Toggled out" only when it did not,
\* whatever calls on other paths came in between.
C15_OutcomesAlternate ==
    OnlyCallsSoFar
    => /\ hist[1].result = "reverted" => hist[1].path \in hist[1].pre.toggled
       /\ hist[1].result = "toggled_out" => hist[1].path \notin hist[1].pre.toggled

\* the parts of one path are the first parts of the other
Related(P, Q) ==
    LET p == PathParts(P)
        q == PathParts(Q)
    IN  \/ Len(p) <= Len(q) /\ Prefix(q, Len(p)) = p
        \/ Len(q) <= Len(p) /\ Prefix(p, Len(q)) = q

\* C16: a successful toggle_node(P) changes json_data only at P: a path Q
\* that is neither a prefix nor an extension of P resolves in json_data after
\* the call exactly when it did before, and to the same value.
C16_OtherPathsUntouched ==
    (Called /\ Succeeded(hist[1].result))
    => \A Q \in PathInputs :
           ~Related(hist[1].path, Q)
           => /\ Resolves(json_data, Q) <=> Resolves(hist[1].pre.json_data, Q)
              /\ get(json_data, PathParts(Q)) = get(hist[1].pre.json_data, PathParts(Q))

\* C17: toggle_node rejects a path as "does not exist or is invalid" exactly
\* when has(original_json_data, path_parts) is false.
C17_RejectedIffNotHas ==
    Called
    => (hist[1].result = "not_found" <=> ~has(hist[1].pre.original, PathParts(hist[1].path)))

\* C18: toggle_node never modifies original_json_data: it has after every
\* call (toggle-out, revert or failing) the value it had before the call, so
\* no mutation of json_data shows through it.
C18_OriginalUnchangedByToggle ==
    Called => original_json_data = hist[1].pre.original

\* a toggle-out, then a call that changed json_data again, leaving it
\* different from original_json_data
C18_Witness ==
    /\ CalledTwice
    /\ hist[2].result = "toggled_out"
    /\ json_data # hist[1].pre.json_data
    /\ json_data # original_json_data
    /\ original_json_data = hist[2].pre.original

====
